---- MODULE Spec2Model ----
(***************************************************************************)
(* A model of ppb/camera.py: the Camera (integer pixel ratio solved from a *)
(* target width or height) and the OldCamera (caller-supplied pixel ratio, *)
(* cached viewport_offset).                                                *)
(*                                                                         *)
(* Numbers are exact rationals <<n, d>> in lowest terms with d > 0, so the *)
(* divisions of the source are modelled as divisions and not as the        *)
(* identity; float rounding is not modelled.  A Vector is <<x, y>> with    *)
(* rational components.  None is the empty tuple.                          *)
(***************************************************************************)
EXTENDS Integers, Sequences, FiniteSets, TLC

VARIABLES
    camera,   \* the Camera: position, viewport_dimensions, pixel_ratio, width (_width), height (_height)
    solved,   \* the viewport_dimensions read by the last _set_dimensions call that completed
    old,      \* the OldCamera: position, viewport_origin, viewport_width, viewport_height,
              \* viewport_offset, pixel_ratio
    last      \* the call just made: op, args, raised, value

vars == <<camera, solved, old, last>>

None == <<>>

(***************************************************************************)
(* Bounds of the model.                                                    *)
(***************************************************************************)
MaxViewport == 2
MaxTarget == 3
MaxOldViewport == 2

(***************************************************************************)
(* Exact rational arithmetic.                                              *)
(***************************************************************************)
Abs(n) == IF n < 0 THEN -n ELSE n

RECURSIVE Gcd(_, _)
Gcd(a, b) == IF b = 0 THEN a ELSE Gcd(b, a % b)

Norm(n, d) ==
    LET g == Gcd(Abs(n), Abs(d))
        s == IF d < 0 THEN -1 ELSE 1
    IN  <<(s * n) \div g, (s * d) \div g>>

Num(n) == <<n, 1>>
RAdd(a, b) == Norm(a[1] * b[2] + b[1] * a[2], a[2] * b[2])
RSub(a, b) == Norm(a[1] * b[2] - b[1] * a[2], a[2] * b[2])
RMul(a, b) == Norm(a[1] * b[1], a[2] * b[2])
RDiv(a, b) == Norm(a[1] * b[2], a[2] * b[1])
RLeq(a, b) == a[1] * b[2] <= b[1] * a[2]
RLt(a, b) == a[1] * b[2] < b[1] * a[2]
IsZero(a) == a[1] = 0
Half(a) == RDiv(a, Num(2))

\* Python's int(x): truncation toward zero, an integer.
IntTrunc(a) == IF a[1] >= 0 THEN a[1] \div a[2] ELSE -((-a[1]) \div a[2])

\* The mathematical floor, an integer (\div rounds down in TLA+).
Floor(a) == a[1] \div a[2]

(***************************************************************************)
(* ppb_vector.Vector: 2-argument construction, -, scalar * and /.          *)
(***************************************************************************)
Vector(x, y) == <<x, y>>
VScale(v, k) == Vector(RMul(v[1], k), RMul(v[2], k))
VDiv(v, k) == Vector(RDiv(v[1], k), RDiv(v[2], k))

(***************************************************************************)
(* Camera                                                                  *)
(***************************************************************************)

\* solve with the ratio rounded to the nearest integer instead of truncated.
MutSolveRounds(cam, game_unit_target, pixel_value) ==
    IF IsZero(game_unit_target)
    THEN [camera |-> cam, raised |-> "ZeroDivisionError"]
    ELSE LET ratio == IntTrunc(RAdd(RDiv(Num(pixel_value), game_unit_target), Norm(1, 2)))
         IN  IF ratio = 0
             THEN [camera |-> [cam EXCEPT !.pixel_ratio = 0],
                   raised |-> "ZeroDivisionError"]
             ELSE [camera |-> [cam EXCEPT
                                 !.pixel_ratio = ratio,
                                 !.width = RDiv(Num(cam.viewport_dimensions[1]), Num(ratio)),
                                 !.height = RDiv(Num(cam.viewport_dimensions[2]), Num(ratio))],
                   raised |-> "none"]

\* solve with _height computed from viewport_width.
MutSolveHeightFromWidth(cam, game_unit_target, pixel_value) ==
    IF IsZero(game_unit_target)
    THEN [camera |-> cam, raised |-> "ZeroDivisionError"]
    ELSE LET ratio == IntTrunc(RDiv(Num(pixel_value), game_unit_target))
         IN  IF ratio = 0
             THEN [camera |-> [cam EXCEPT !.pixel_ratio = 0],
                   raised |-> "ZeroDivisionError"]
             ELSE [camera |-> [cam EXCEPT
                                 !.pixel_ratio = ratio,
                                 !.width = RDiv(Num(cam.viewport_dimensions[1]), Num(ratio)),
                                 !.height = RDiv(Num(cam.viewport_dimensions[1]), Num(ratio))],
                   raised |-> "none"]

\* Camera._set_dimensions, lines 158-160: the camera after the three
\* assignments and the error raised.  int(pixel_value / game_unit_target)
\* raises ZeroDivisionError on a zero target before anything is stored; a
\* ratio of 0 is stored in pixel_ratio and the division on line 159 then
\* raises, leaving _width and _height as they were.
solve(cam, game_unit_target, pixel_value) ==
    IF IsZero(game_unit_target)
    THEN [camera |-> cam, raised |-> "ZeroDivisionError"]
    ELSE LET ratio == IntTrunc(RDiv(Num(pixel_value), game_unit_target))
         IN  IF ratio = 0
             THEN [camera |-> [cam EXCEPT !.pixel_ratio = 0],
                   raised |-> "ZeroDivisionError"]
             ELSE [camera |-> [cam EXCEPT
                                 !.pixel_ratio = ratio,
                                 !.width = RDiv(Num(cam.viewport_dimensions[1]), Num(ratio)),
                                 !.height = RDiv(Num(cam.viewport_dimensions[2]), Num(ratio))],
                   raised |-> "none"]

\* _set_dimensions without the check for two targets: the width wins.
MutSetDimensionsBothUsesWidth(cam, target_width, target_height) ==
    IF target_width # None
    THEN solve(cam, target_width, cam.viewport_dimensions[1])
    ELSE IF target_height # None
    THEN solve(cam, target_height, cam.viewport_dimensions[2])
    ELSE [camera |-> cam, raised |-> "ValueError"]

\* Camera._set_dimensions: the camera after the call and the error raised.
_set_dimensions(cam, target_width, target_height) ==
    LET viewport_width == cam.viewport_dimensions[1]
        viewport_height == cam.viewport_dimensions[2]
    IN  IF target_width # None /\ target_height # None
        THEN [camera |-> cam, raised |-> "ValueError"]
        ELSE IF target_width # None
        THEN solve(cam, target_width, viewport_width)
        ELSE IF target_height # None
        THEN solve(cam, target_height, viewport_height)
        ELSE [camera |-> cam, raised |-> "ValueError"]

\* Camera.__init__: position is the class attribute Vector(0, 0); the fields
\* are None until _set_dimensions(target_width=...) stores them.
Camera_init(target_game_unit_width, viewport_dimensions) ==
    _set_dimensions([position |-> Vector(Num(0), Num(0)),
                    viewport_dimensions |-> viewport_dimensions,
                    pixel_ratio |-> None,
                    width |-> None,
                    height |-> None],
                   target_game_unit_width, None)

bottom(cam) == RSub(cam.position[2], Half(cam.height))
left(cam) == RSub(cam.position[1], Half(cam.width))
right(cam) == RAdd(cam.position[1], Half(cam.width))
top(cam) == RAdd(cam.position[2], Half(cam.height))

top_left(cam) == Vector(left(cam), top(cam))
top_right(cam) == Vector(right(cam), top(cam))
bottom_left(cam) == Vector(left(cam), bottom(cam))
bottom_right(cam) == Vector(right(cam), bottom(cam))

\* point_is_visible with exclusive bounds.
MutPointIsVisibleStrict(cam, point) ==
    /\ RLt(left(cam), point[1]) /\ RLt(point[1], right(cam))
    /\ RLt(bottom(cam), point[2]) /\ RLt(point[2], top(cam))

point_is_visible(cam, point) ==
    /\ RLeq(left(cam), point[1]) /\ RLeq(point[1], right(cam))
    /\ RLeq(bottom(cam), point[2]) /\ RLeq(point[2], top(cam))

\* translate_point_to_screen without the flip of the y axis.
MutTranslateNoFlip(cam, point) ==
    VScale(Vector(RSub(point[1], left(cam)), RSub(point[2], bottom(cam))),
           Num(cam.pixel_ratio))

translate_point_to_screen(cam, point) ==
    VScale(Vector(RSub(point[1], left(cam)), RSub(top(cam), point[2])),
           Num(cam.pixel_ratio))


(***************************************************************************)
(* OldCamera                                                               *)
(***************************************************************************)

\* OldCamera.__init__(viewport, pixel_ratio); viewport is
\* (origin x, origin y, width, height).
OldCamera_init(viewport, pixel_ratio) ==
    [position |-> Vector(Num(0), Num(0)),
     viewport_origin |-> Vector(Num(viewport[1]), Num(viewport[2])),
     viewport_width |-> viewport[3],
     viewport_height |-> viewport[4],
     viewport_offset |-> Vector(Half(Num(viewport[3])), Half(Num(viewport[4]))),
     pixel_ratio |-> pixel_ratio]

frame_height(o) == RDiv(Num(o.viewport_height), o.pixel_ratio)
frame_width(o) == RDiv(Num(o.viewport_width), o.pixel_ratio)
half_height(o) == Half(frame_height(o))
half_width(o) == Half(frame_width(o))
frame_top(o) == RAdd(o.position[2], half_height(o))
frame_bottom(o) == RSub(o.position[2], half_height(o))
frame_left(o) == RSub(o.position[1], half_width(o))
frame_right(o) == RAdd(o.position[1], half_width(o))

\* The viewport_width setter without the recomputation of viewport_offset.
MutSetViewportWidthStaleOffset(o, value) ==
    [o EXCEPT !.viewport_width = value]

\* The viewport_width setter.
set_viewport_width(o, value) ==
    [o EXCEPT !.viewport_width = value,
              !.viewport_offset = Vector(Half(Num(value)), Half(Num(o.viewport_height)))]

\* The viewport_height setter with both halves of viewport_offset from value.
MutSetViewportHeightSquareOffset(o, value) ==
    [o EXCEPT !.viewport_height = value,
              !.viewport_offset = Vector(Half(Num(value)), Half(Num(value)))]

\* The viewport_height setter.
set_viewport_height(o, value) ==
    [o EXCEPT !.viewport_height = value,
              !.viewport_offset = Vector(Half(Num(o.viewport_width)), Half(Num(value)))]

\* in_frame with an exclusive comparison on the frame's left edge.
MutInFrameStrictLeft(o, sprite) ==
    /\ RLt(frame_left(o), sprite.right)
    /\ RLeq(sprite.left, frame_right(o))
    /\ RLeq(sprite.bottom, frame_top(o))
    /\ RLeq(frame_bottom(o), sprite.top)

\* OldCamera.in_frame; a sprite is a record of its left, right, top, bottom.
in_frame(o, sprite) ==
    /\ RLeq(frame_left(o), sprite.right)
    /\ RLeq(sprite.left, frame_right(o))
    /\ RLeq(sprite.bottom, frame_top(o))
    /\ RLeq(frame_bottom(o), sprite.top)

translate_to_frame(o, point) ==
    LET scaled == VDiv(point, o.pixel_ratio)
    IN  Vector(RAdd(frame_left(o), scaled[1]), RSub(frame_top(o), scaled[2]))

\* translate_to_viewport without the flip of the y axis.
MutTranslateToViewportNoFlip(o, point) ==
    VScale(Vector(RSub(point[1], frame_left(o)), RSub(point[2], frame_bottom(o))),
           o.pixel_ratio)

translate_to_viewport(o, point) ==
    VScale(Vector(RSub(point[1], frame_left(o)), RSub(frame_top(o), point[2])),
           o.pixel_ratio)


(***************************************************************************)
(* Inputs.                                                                 *)
(***************************************************************************)
\* Pixel dimensions of the render target, the spec's 800 x 600 among them.
Viewports == {<<w, h>> : w \in 1..MaxViewport, h \in 1..MaxViewport} \cup {<<800, 600>>}

\* Positive target widths and heights in game units, whole and fractional.
Targets == {Norm(n, d) : n \in 1..MaxTarget, d \in 1..2} \cup {Num(8)}

\* Arguments of a direct call of _set_dimensions: each given or not.
DirectTargets == {None, Num(1), Num(8)}

Positions == {Vector(Num(0), Num(0)), Vector(Num(1), Num(-2)), Vector(Norm(-3, 2), Norm(1, 2))}

\* Points of the frame's edges and centre lines, and one unit beyond each edge.
ProbeXs(cam) == {RSub(left(cam), Num(1)), left(cam), cam.position[1],
                 right(cam), RAdd(right(cam), Num(1))}
ProbeYs(cam) == {RSub(bottom(cam), Num(1)), bottom(cam), cam.position[2],
                 top(cam), RAdd(top(cam), Num(1))}
ProbePoints(cam) ==
    {Vector(x, cam.position[2]) : x \in ProbeXs(cam)}
      \cup {Vector(cam.position[1], y) : y \in ProbeYs(cam)}
      \cup {top_left(cam), top_right(cam), bottom_left(cam), bottom_right(cam)}
      \cup {Vector(RSub(left(cam), Num(1)), top(cam)),
            Vector(right(cam), RSub(bottom(cam), Num(1)))}

OldViewportWidths == 1..MaxOldViewport \cup {640, 800}
OldViewportHeights == 1..MaxOldViewport \cup {600}
OldOrigins == {<<0, 0>>, <<10, 20>>}
\* Nonzero pixel ratios of either sign, the default 64 among them.
PixelRatios == {Num(64), Num(2), Norm(1, 2), Norm(3, 2), Num(-1)}

(***************************************************************************)
(* The Camera's operations.  last records the operation just performed:    *)
(* its name, its arguments, the error it raised and the value it returned. *)
(* solved records the viewport_dimensions read by the last _set_dimensions *)
(* call that ran to completion.                                            *)
(***************************************************************************)
Call(op, args, raised, value) ==
    [op |-> op, args |-> args, raised |-> raised, value |-> value]

\* A call of _set_dimensions made by op.
DimensionSet(op, target_width, target_height) ==
    LET r == _set_dimensions(camera, target_width, target_height)
    IN  /\ camera' = r.camera
        /\ solved' = IF r.raised = "none" THEN camera.viewport_dimensions ELSE solved
        /\ last' = Call(op, <<target_width, target_height>>, r.raised, None)
        /\ UNCHANGED old

Init ==
    /\ \E t \in Targets, vp \in Viewports :
         LET r == Camera_init(t, vp)
         IN  /\ r.raised = "none"
             /\ camera = r.camera
             /\ solved = vp
             /\ last = Call("Camera", <<t, None>>, "none", None)
    /\ old = None

WidthSetter ==
    \E t \in Targets : DimensionSet("width", t, None)

HeightSetter ==
    \E t \in Targets : DimensionSet("height", None, t)

SetDimensions ==
    \E tw \in DirectTargets, th \in DirectTargets :
        DimensionSet("_set_dimensions", tw, th)

SetPosition ==
    \E p \in Positions :
        /\ camera' = [camera EXCEPT !.position = p]
        /\ last' = Call("position", p, "none", None)
        /\ UNCHANGED <<solved, old>>

SetViewportDimensions ==
    \E vp \in Viewports :
        /\ camera' = [camera EXCEPT !.viewport_dimensions = vp]
        /\ last' = Call("viewport_dimensions", vp, "none", None)
        /\ UNCHANGED <<solved, old>>

PointIsVisible ==
    \E p \in ProbePoints(camera) :
        /\ last' = Call("point_is_visible", p, "none", point_is_visible(camera, p))
        /\ UNCHANGED <<camera, solved, old>>

TranslatePointToScreen ==
    \E p \in {top_left(camera), top_right(camera), bottom_left(camera),
              bottom_right(camera), camera.position} :
        /\ last' = Call("translate_point_to_screen", p, "none",
                        translate_point_to_screen(camera, p))
        /\ UNCHANGED <<camera, solved, old>>

Next ==
    \/ WidthSetter
    \/ HeightSetter
    \/ SetDimensions
    \/ SetPosition
    \/ SetViewportDimensions
    \/ PointIsVisible
    \/ TranslatePointToScreen

Spec == Init /\ [][Next]_vars


(***************************************************************************)
(* The OldCamera's operations.                                             *)
(***************************************************************************)
\* Intervals on one axis placed against the frame's edges lo and hi and its
\* centre mid: apart from it, touching it, covering it, inside it.  A sprite's left <= right and bottom <= top.
Intervals(lo, mid, hi) ==
    {i \in {<<RSub(lo, Num(2)), RSub(lo, Num(1))>>,
            <<RSub(lo, Num(1)), lo>>,
            <<RSub(lo, Num(1)), RAdd(hi, Num(1))>>,
            <<mid, mid>>,
            <<hi, RAdd(hi, Num(1))>>,
            <<RAdd(hi, Num(1)), RAdd(hi, Num(2))>>} : RLeq(i[1], i[2])}

Sprites(o) ==
    {[left |-> h[1], right |-> h[2], bottom |-> v[1], top |-> v[2]] :
        h \in Intervals(frame_left(o), o.position[1], frame_right(o)),
        v \in Intervals(frame_bottom(o), o.position[2], frame_top(o))}

PixelPoints(o) ==
    {Vector(Num(0), Num(0)), o.viewport_offset,
     Vector(Num(o.viewport_width), Num(o.viewport_height)),
     Vector(Num(3), Norm(-1, 2))}

GamePoints(o) ==
    {o.position, Vector(frame_left(o), frame_top(o)),
     Vector(frame_right(o), frame_bottom(o)), Vector(Norm(1, 2), Num(-2))}

InitOld ==
    /\ \E origin \in OldOrigins, w \in OldViewportWidths, h \in OldViewportHeights,
          r \in PixelRatios :
         /\ old = OldCamera_init(<<origin[1], origin[2], w, h>>, r)
         /\ last = Call("OldCamera", <<<<origin[1], origin[2], w, h>>, r>>, "none", None)
    /\ camera = None
    /\ solved = None

ViewportWidthSetter ==
    \E value \in OldViewportWidths :
        /\ old' = set_viewport_width(old, value)
        /\ last' = Call("viewport_width", value, "none", None)
        /\ UNCHANGED <<camera, solved>>

ViewportHeightSetter ==
    \E value \in OldViewportHeights :
        /\ old' = set_viewport_height(old, value)
        /\ last' = Call("viewport_height", value, "none", None)
        /\ UNCHANGED <<camera, solved>>

SetOldPosition ==
    \E p \in Positions :
        /\ old' = [old EXCEPT !.position = p]
        /\ last' = Call("position", p, "none", None)
        /\ UNCHANGED <<camera, solved>>

SetPixelRatio ==
    \E r \in PixelRatios :
        /\ old' = [old EXCEPT !.pixel_ratio = r]
        /\ last' = Call("pixel_ratio", r, "none", None)
        /\ UNCHANGED <<camera, solved>>

InFrame ==
    \E sprite \in Sprites(old) :
        /\ last' = Call("in_frame", sprite, "none", in_frame(old, sprite))
        /\ UNCHANGED <<camera, solved, old>>

TranslateToFrame ==
    \E point \in PixelPoints(old) :
        /\ last' = Call("translate_to_frame", point, "none", translate_to_frame(old, point))
        /\ UNCHANGED <<camera, solved, old>>

TranslateToViewport ==
    \E point \in GamePoints(old) :
        /\ last' = Call("translate_to_viewport", point, "none",
                        translate_to_viewport(old, point))
        /\ UNCHANGED <<camera, solved, old>>

NextOld ==
    \/ ViewportWidthSetter
    \/ ViewportHeightSetter
    \/ SetOldPosition
    \/ SetPixelRatio
    \/ InFrame
    \/ TranslateToFrame
    \/ TranslateToViewport

SpecOld == InitOld /\ [][NextOld]_vars


(***************************************************************************)
(* Properties of the Camera, checked under Spec.                           *)
(***************************************************************************)
ViewportW == camera.viewport_dimensions[1]
ViewportH == camera.viewport_dimensions[2]

WidthTargeted ==
    /\ last.op \in {"Camera", "width", "_set_dimensions"}
    /\ last.args[1] # None /\ last.args[2] = None

HeightTargeted ==
    /\ last.op \in {"height", "_set_dimensions"}
    /\ last.args[1] = None /\ last.args[2] # None

\* What a completed dimension set with target on pixels leaves, as C1 states it.
SolvedFor(pixels, target) ==
    /\ last.raised = "none"
    /\ camera.pixel_ratio = Floor(RDiv(Num(pixels), target))
    /\ camera.pixel_ratio # 0
    /\ camera.width = RDiv(Num(ViewportW), Num(camera.pixel_ratio))
    /\ RMul(camera.width, Num(camera.pixel_ratio)) = Num(ViewportW)
    /\ camera.height = RDiv(Num(ViewportH), Num(camera.pixel_ratio))

\* C1: every dimension set with a positive target width on a positive viewport
\* completes and leaves pixel_ratio = floor(viewport_w / target_width),
\* width = viewport_w / pixel_ratio and height = viewport_h / pixel_ratio;
\* symmetrically for a target height.
C1_DimensionSetCompletes ==
    /\ WidthTargeted => SolvedFor(ViewportW, last.args[1])
    /\ HeightTargeted => SolvedFor(ViewportH, last.args[2])

\* What a dimension set with a positive target on an axis of pixels leaves:
\* solved values when the target is at most the pixels, and otherwise a
\* ZeroDivisionError raised after pixel_ratio = 0 was stored.
WithinPixels(pixels, target) ==
    IF RLeq(target, Num(pixels))
    THEN SolvedFor(pixels, target)
    ELSE last.raised = "ZeroDivisionError" /\ camera.pixel_ratio = 0

\* C1 as amended: a dimension set with a positive target width of at most
\* viewport_w completes and leaves pixel_ratio = floor(viewport_w /
\* target_width), width = viewport_w / pixel_ratio, height = viewport_h /
\* pixel_ratio; with a larger target it stores pixel_ratio = 0 and raises
\* ZeroDivisionError.  Symmetrically for a target height and viewport_h.
C1_DimensionSetWithinPixels ==
    /\ WidthTargeted => WithinPixels(ViewportW, last.args[1])
    /\ HeightTargeted => WithinPixels(ViewportH, last.args[2])

C1_Witness ==
    /\ last.op = "width" /\ last.raised = "none"
    /\ camera.viewport_dimensions = <<800, 600>>
    /\ camera.pixel_ratio = 266
    /\ camera.width = Norm(800, 266)

\* The relation of C2 with one axis as the target axis: pixel_ratio is the
\* floor of that axis's pixels over its extent, and the other axis's extent is
\* its pixels over pixel_ratio.
AxisRelation(pixels, extent, other_pixels, other_extent) ==
    /\ camera.pixel_ratio # 0
    /\ camera.pixel_ratio = Floor(RDiv(Num(pixels), extent))
    /\ other_extent = RDiv(Num(other_pixels), Num(camera.pixel_ratio))

\* C2 as claimed: in every reachable state, viewport reassignments and failed
\* dimension sets included, the relation holds for the axis last set as the
\* target.  Stated for whichever axis that was: it fails only where it holds
\* for neither axis.
C2_RatioRelationAlways ==
    \/ AxisRelation(ViewportW, camera.width, ViewportH, camera.height)
    \/ AxisRelation(ViewportH, camera.height, ViewportW, camera.width)

\* C2 as amended: while viewport_dimensions is what the last completed
\* dimension set read, width = viewport_w / r and height = viewport_h / r for
\* the positive integer r = floor(viewport_w / width) = floor(viewport_h /
\* height), on both axes; pixel_ratio is r, or 0 after a dimension set whose
\* target exceeded the viewport's pixels (ZeroDivisionError after the store).
C2_RatioRelationWhileViewportKept ==
    camera.viewport_dimensions = solved =>
        LET r == Floor(RDiv(Num(ViewportW), camera.width))
        IN  /\ r >= 1
            /\ r = Floor(RDiv(Num(ViewportH), camera.height))
            /\ camera.width = RDiv(Num(ViewportW), Num(r))
            /\ camera.height = RDiv(Num(ViewportH), Num(r))
            /\ camera.pixel_ratio \in {r, 0}

C2_Witness ==
    /\ last.op = "height" /\ last.raised = "none"
    /\ camera.viewport_dimensions = solved
    /\ camera.width[2] # 1
    /\ camera.position # Vector(Num(0), Num(0))

BothOrNeither(args) == (args[1] # None) <=> (args[2] # None)

DimensionOps == {"width", "height", "_set_dimensions"}

\* C3: a dimension set raises ValueError exactly when both targets or neither
\* are supplied, and a call that raises it leaves viewport_dimensions,
\* pixel_ratio, width, height and position as they were.
C3_ValueErrorIffBothOrNeither ==
    [][last'.op \in DimensionOps =>
          /\ (last'.raised = "ValueError") <=> BothOrNeither(last'.args)
          /\ last'.raised = "ValueError" => camera' = camera]_vars

C3_Witness ==
    /\ last.op = "_set_dimensions" /\ last.raised = "ValueError"
    /\ last.args[1] # None /\ last.args[2] # None
    /\ camera.position # Vector(Num(0), Num(0))

\* The dimensions are those of a completed solve against the current viewport.
Solved == camera.pixel_ratio # 0 /\ camera.viewport_dimensions = solved

\* C4: with solved dimensions, at any position, translate_point_to_screen maps
\* top_left to (0, 0), top_right to (viewport_w, 0), bottom_left to
\* (0, viewport_h) and bottom_right to (viewport_w, viewport_h); viewport
\* (800, 600) with target width 8 at position (0, 0) has pixel_ratio 100,
\* width 8, height 6 and maps (4, 3) to (800, 0).
C4_CornersMapToViewportCorners ==
    /\ (last.op = "translate_point_to_screen" /\ Solved) =>
         /\ last.args = top_left(camera) => last.value = Vector(Num(0), Num(0))
         /\ last.args = top_right(camera) => last.value = Vector(Num(ViewportW), Num(0))
         /\ last.args = bottom_left(camera) => last.value = Vector(Num(0), Num(ViewportH))
         /\ last.args = bottom_right(camera) =>
              last.value = Vector(Num(ViewportW), Num(ViewportH))
    /\ (WidthTargeted /\ last.args[1] = Num(8) /\ camera.viewport_dimensions = <<800, 600>>) =>
         /\ last.raised = "none"
         /\ camera.pixel_ratio = 100
         /\ camera.width = Num(8) /\ camera.height = Num(6)
    /\ (/\ last.op = "translate_point_to_screen" /\ Solved
        /\ camera.viewport_dimensions = <<800, 600>> /\ camera.width = Num(8)
        /\ camera.position = Vector(Num(0), Num(0))
        /\ last.args = Vector(Num(4), Num(3))) =>
         last.value = Vector(Num(800), Num(0))

C4_Witness ==
    /\ last.op = "translate_point_to_screen" /\ Solved
    /\ last.args = bottom_right(camera)
    /\ camera.position # Vector(Num(0), Num(0))
    /\ camera.width[2] # 1

OnEdge(p) ==
    \/ /\ p[1] \in {left(camera), right(camera)}
       /\ RLeq(bottom(camera), p[2]) /\ RLeq(p[2], top(camera))
    \/ /\ p[2] \in {bottom(camera), top(camera)}
       /\ RLeq(left(camera), p[1]) /\ RLeq(p[1], right(camera))

OneBeyond(p) ==
    \/ p[1] = RSub(left(camera), Num(1))
    \/ p[1] = RAdd(right(camera), Num(1))
    \/ p[2] = RSub(bottom(camera), Num(1))
    \/ p[2] = RAdd(top(camera), Num(1))

Outside(p) ==
    \/ RLt(p[1], left(camera)) \/ RLt(right(camera), p[1])
    \/ RLt(p[2], bottom(camera)) \/ RLt(top(camera), p[2])

\* C6: point_is_visible is true of a point on the left, right, top or bottom
\* edge of the frame, false of a point one unit beyond any edge, and in
\* general true exactly of the points outside no edge.
C6_VisibleInclusiveAtEdges ==
    last.op = "point_is_visible" =>
        /\ OnEdge(last.args) => last.value = TRUE
        /\ OneBeyond(last.args) => last.value = FALSE
        /\ last.value = ~Outside(last.args)

C6_Witness ==
    /\ last.op = "point_is_visible"
    /\ last.args = bottom_left(camera)
    /\ last.value = TRUE
    /\ camera.position # Vector(Num(0), Num(0))

\* C10: after constructing a Camera with a positive target width, or assigning
\* width a positive target, the resulting width is at most the target.
C10_WidthAtMostTarget ==
    (last.op \in {"Camera", "width"} /\ last.raised = "none") =>
        RLeq(camera.width, last.args[1])


(***************************************************************************)
(* Properties of the OldCamera, checked under SpecOld.                     *)
(***************************************************************************)
\* C5: translate_to_frame and translate_to_viewport are exact inverses for
\* any position, viewport size and nonzero pixel_ratio: translating a game
\* point to the viewport and back gives the point, and translating a pixel
\* point to the frame and back gives the point.
C5_TranslateRoundTrip ==
    /\ last.op = "translate_to_viewport" =>
         translate_to_frame(old, last.value) = last.args
    /\ last.op = "translate_to_frame" =>
         translate_to_viewport(old, last.value) = last.args

C5_Witness ==
    /\ last.op = "translate_to_viewport"
    /\ last.args = Vector(Norm(1, 2), Num(-2))
    /\ old.pixel_ratio = Norm(3, 2)
    /\ old.position # Vector(Num(0), Num(0))
    /\ last.value # last.args

RMax(a, b) == IF RLeq(a, b) THEN b ELSE a
RMin(a, b) == IF RLeq(a, b) THEN a ELSE b

\* The frame is a rectangle: its left is not right of its right, its bottom
\* not above its top (a positive pixel_ratio).
FrameIsRectangle ==
    RLeq(frame_left(old), frame_right(old)) /\ RLeq(frame_bottom(old), frame_top(old))

\* Two closed rectangles share a point: they overlap or touch.
OverlapOrTouch(sprite) ==
    /\ RLeq(RMax(frame_left(old), sprite.left), RMin(frame_right(old), sprite.right))
    /\ RLeq(RMax(frame_bottom(old), sprite.bottom), RMin(frame_top(old), sprite.top))

Contained(sprite) ==
    /\ RLeq(frame_left(old), sprite.left) /\ RLeq(sprite.right, frame_right(old))
    /\ RLeq(frame_bottom(old), sprite.bottom) /\ RLeq(sprite.top, frame_top(old))

\* C7: in_frame is true exactly of the sprites whose rectangle overlaps or
\* touches the frame rectangle; in particular it is true of a sprite whose
\* right edge is exactly frame_left and that meets the frame vertically.
C7_InFrameIsInclusiveOverlap ==
    (last.op = "in_frame" /\ FrameIsRectangle) =>
        /\ last.value = OverlapOrTouch(last.args)
        /\ (/\ last.args.right = frame_left(old)
            /\ RLeq(last.args.bottom, frame_top(old))
            /\ RLeq(frame_bottom(old), last.args.top)) => last.value = TRUE

C7_Witness ==
    /\ last.op = "in_frame" /\ FrameIsRectangle
    /\ last.args.right = frame_left(old)
    /\ RLt(last.args.left, frame_left(old))
    /\ ~Contained(last.args)
    /\ last.value = TRUE

\* C8: viewport_offset = (viewport_width / 2, viewport_height / 2) after
\* construction and after any sequence of viewport_width and viewport_height
\* assignments, position changes and pixel_ratio changes.
C8_ViewportOffsetIsHalfViewport ==
    old.viewport_offset =
        Vector(RDiv(Num(old.viewport_width), Num(2)), RDiv(Num(old.viewport_height), Num(2)))

C8_Witness ==
    /\ last.op = "viewport_height" /\ last.args = 1
    /\ old.viewport_width = 640
    /\ old.viewport_offset = Vector(Num(320), Norm(1, 2))
    /\ old.pixel_ratio # Num(64)

\* C9: assigning viewport_width changes only the stored width and
\* viewport_offset.x, which becomes half the new width; viewport_height,
\* viewport_offset.y, viewport_origin, position and pixel_ratio stay.
\* Symmetrically for assigning viewport_height.
C9_ViewportSetterFrame ==
    [][/\ last'.op = "viewport_width" =>
            old' = [old EXCEPT !.viewport_width = last'.args,
                               !.viewport_offset[1] = RDiv(Num(last'.args), Num(2))]
       /\ last'.op = "viewport_height" =>
            old' = [old EXCEPT !.viewport_height = last'.args,
                               !.viewport_offset[2] = RDiv(Num(last'.args), Num(2))]]_vars

C9_Witness ==
    /\ last.op = "viewport_width" /\ last.args = 640
    /\ old.viewport_offset = Vector(Num(320), Num(300))
    /\ old.viewport_height = 600
    /\ old.viewport_origin = Vector(Num(10), Num(20))
    /\ old.position # Vector(Num(0), Num(0))

====
